---- MODULE Spec2Model ----
(***************************************************************************)
(* Model of src/server.js: the client board API.                           *)
(*                                                                         *)
(* The store is the `clients` table.  A request is handled by a chain of   *)
(* callbacks; every store operation (db.get, db.all, db.run) is a          *)
(* suspension point.  One action of the model is one store operation       *)
(* executing together with the callback it invokes: the callback touches   *)
(* only the request's own variables and queues the next store operation,   *)
(* so it commutes with the steps of the other requests.                    *)
(*                                                                         *)
(* Strings that the code parses (the :id path parameter, the priority of   *)
(* the body) are sequences of one-character strings, so that parseInt is   *)
(* computed as JavaScript computes it.                                     *)
(***************************************************************************)
EXTENDS Integers, Sequences, FiniteSets, TLC

VARIABLES store, req, last, db, exited

vars == <<store, req, last, db, exited>>

----------------------------------------------------------------------------
(* JavaScript values *)

NaN == [nan |-> TRUE, n |-> 0]

Num(k) == [nan |-> FALSE, n |-> k]

Undefined == [t |-> "undefined", v |-> <<>>]

JsNumber(lit) == [t |-> "number", v |-> lit]

JsString(chars) == [t |-> "string", v |-> chars]

NoStatus == [t |-> "undefined", v |-> ""]

StatusString(str) == [t |-> "string", v |-> str]

\* String(x) for a number (its decimal literal) or a string (itself).
JsToString(x) == x.v

WhiteSpace == {" "}

DecimalDigits == <<"0", "1", "2", "3", "4", "5", "6", "7", "8", "9">>

HexLetters == <<"a", "b", "c", "d", "e", "f">>

DigitVal(c) ==
  IF \E i \in 1..Len(DecimalDigits) : DecimalDigits[i] = c
  THEN (CHOOSE i \in 1..Len(DecimalDigits) : DecimalDigits[i] = c) - 1
  ELSE IF \E i \in 1..Len(HexLetters) : HexLetters[i] = c
  THEN (CHOOSE i \in 1..Len(HexLetters) : HexLetters[i] = c) + 9
  ELSE 99

IsDigit(c, R) == DigitVal(c) < R

RECURSIVE SkipWhite(_)
SkipWhite(s) ==
  IF s # <<>> /\ Head(s) \in WhiteSpace THEN SkipWhite(Tail(s)) ELSE s

RECURSIVE DigitPrefix(_, _)
DigitPrefix(s, R) ==
  IF s # <<>> /\ IsDigit(Head(s), R)
  THEN <<Head(s)>> \o DigitPrefix(Tail(s), R)
  ELSE <<>>

RECURSIVE MathInt(_, _, _)
MathInt(ds, R, acc) ==
  IF ds = <<>> THEN acc ELSE MathInt(Tail(ds), R, acc * R + DigitVal(Head(ds)))

\* parseInt(str, radix); radix 0 stands for an omitted radix.
parseInt(str, radix) ==
  LET s1  == SkipWhite(str)
      neg == s1 # <<>> /\ Head(s1) = "-"
      s2  == IF s1 # <<>> /\ Head(s1) \in {"+", "-"} THEN Tail(s1) ELSE s1
      hex == radix \in {0, 16} /\ Len(s2) >= 2 /\ s2[1] = "0" /\ s2[2] \in {"x", "X"}
      R   == IF hex THEN 16 ELSE IF radix = 0 THEN 10 ELSE radix
      s3  == IF hex THEN SubSeq(s2, 3, Len(s2)) ELSE s2
      ds  == DigitPrefix(s3, R)
  IN  IF ds = <<>> THEN NaN
      ELSE Num((IF neg THEN -1 ELSE 1) * MathInt(ds, R, 0))

\* if (x) for the values a status can take.
Truthy(x) == x.t = "string" /\ x.v # ""

----------------------------------------------------------------------------
(* Messages of the error bodies *)

NoMessage == [message |-> ""]

MsgIdNotInteger ==
  [message |-> "Invalid id provided.", long_message |-> "Id can only be integer."]

MsgIdNotFound ==
  [message |-> "Invalid id provided.",
   long_message |-> "Cannot find client with that id."]

ErrMessage == "SQLITE_ERROR"

MsgDbError == [message |-> "DB error.", long_message |-> ErrMessage]

MsgDbUpdateError == [message |-> "DB update error.", long_message |-> ErrMessage]

MsgDbFetchError == [message |-> "DB fetch error.", long_message |-> ErrMessage]

MsgInvalidPriority ==
  [message |-> "Invalid priority provided.",
   long_message |-> "Priority can only be positive integer."]

MsgInvalidStatusList ==
  [message |-> "Invalid status provided.",
   long_message |->
     "Status can only be one of the following: [backlog | in-progress | complete]."]

MsgRoot == [message |-> "SHIPTIVITY API. Read documentation to see API docs"]

MsgInvalidStatusPut ==
  [message |-> "Invalid status provided.",
   long_message |-> "Status must be one of: backlog, in-progress, complete."]

MsgClientNotFound == [message |-> "Client not found."]

MsgNoFields == [message |-> "No valid fields to update."]

Statuses == {"backlog", "in-progress", "complete"}

----------------------------------------------------------------------------
(* Bounds and inputs *)

MaxPriority == 2

Slots == {"r1", "r2"}

ClientIds == {1, 2}

\* The :id path parameters tried: a stored id, a number followed by a
\* letter, a word, and an integer that names no record.
RawIds == {<<"1">>, <<"1", "x">>, <<"x">>, <<"9">>}

\* The status values tried, in a body or in a query: none, one of the set,
\* one of the set but for its case, and the empty string.
StatusInputs ==
  {NoStatus, StatusString("in-progress"), StatusString("Backlog"),
   StatusString("")}

RECURSIVE Literal(_)
Literal(k) == IF k < 10 THEN <<DecimalDigits[k + 1]>>
              ELSE Literal(k \div 10) \o <<DecimalDigits[(k % 10) + 1]>>

PriorityInputs ==
  {Undefined} \cup {JsNumber(Literal(k)) : k \in 0..MaxPriority}
    \cup {JsNumber(<<"1", ".", "5">>), JsString(<<"a", "b", "c">>)}

Bodies == [status : StatusInputs, priority : PriorityInputs]

EmptyBody == [status |-> NoStatus, priority |-> Undefined]

----------------------------------------------------------------------------
(* The store *)

InitStore ==
  [i \in ClientIds |->
     [id |-> i, name |-> <<"client", i>>,
      status |-> IF i = 1 THEN "backlog" ELSE "complete",
      priority |-> i]]

NoRows == <<>>

\* SELECT * FROM clients WHERE id = ?  (db.get: the row, or none)
SelectById(st, id) ==
  IF ~id.nan /\ id.n \in DOMAIN st THEN {st[id.n]} ELSE {}

\* SELECT * FROM clients
SelectAll(st) == st

\* SELECT * FROM clients WHERE status = ?
SelectByStatus(st, status) ==
  [i \in {j \in DOMAIN st : st[j].status = status} |-> st[i]]

\* Mutant of UpdateClient: every column is written, supplied or not.
UpdateClientAllColumns(st, upd, id) ==
  [i \in DOMAIN st |->
     IF i # id.n THEN st[i]
     ELSE [st[i] EXCEPT !.status = upd.status, !.priority = upd.priority.n]]

\* Mutant of UpdateClient: SET priority = priority + ?
UpdateClientAddPriority(st, upd, id) ==
  [i \in DOMAIN st |->
     IF i # id.n THEN st[i]
     ELSE [st[i] EXCEPT
             !.status = IF upd.setStatus THEN upd.status ELSE @,
             !.priority = IF upd.setPriority THEN @ + upd.priority.n ELSE @]]

\* Mutant of UpdateClient: the WHERE clause is missing.
UpdateClientNoWhere(st, upd, id) ==
  [i \in DOMAIN st |->
     [st[i] EXCEPT
        !.status = IF upd.setStatus THEN upd.status ELSE @,
        !.priority = IF upd.setPriority THEN upd.priority.n ELSE @]]

\* Mutant of UpdateClient: REPLACE INTO, the columns not supplied fall back
\* to their defaults.
UpdateClientReplace(st, upd, id) ==
  [i \in DOMAIN st |->
     IF i # id.n THEN st[i]
     ELSE [st[i] EXCEPT
             !.status = IF upd.setStatus THEN upd.status ELSE "backlog",
             !.priority = IF upd.setPriority THEN upd.priority.n ELSE 1]]

\* UPDATE clients SET <updates> WHERE id = ?
UpdateClient(st, upd, id) ==
  [i \in DOMAIN st |->
     IF i # id.n THEN st[i]
     ELSE [st[i] EXCEPT
             !.status = IF upd.setStatus THEN upd.status ELSE @,
             !.priority = IF upd.setPriority THEN upd.priority.n ELSE @]]

----------------------------------------------------------------------------
(* Validators *)

\* validateId: the synchronous part (NaN) and the db.get callback.
validateIdSync(id) ==
  IF id.nan THEN [valid |-> FALSE, messageObj |-> MsgIdNotInteger]
  ELSE [valid |-> TRUE, messageObj |-> NoMessage]

\* Mutant of validateIdRow: the `!row` branch is missing.
validateIdRowAnyRow(err, row) ==
  IF err THEN [valid |-> FALSE, messageObj |-> MsgDbError]
  ELSE [valid |-> TRUE, messageObj |-> NoMessage]

validateIdRow(err, row) ==
  IF err THEN [valid |-> FALSE, messageObj |-> MsgDbError]
  ELSE IF row = {} THEN [valid |-> FALSE, messageObj |-> MsgIdNotFound]
  ELSE [valid |-> TRUE, messageObj |-> NoMessage]

\* Mutant of validatePriority: `priority < 0` for `priority < 1`.
validatePriorityNonNegative(priority) ==
  IF priority.nan \/ priority.n < 0
  THEN [valid |-> FALSE, messageObj |-> MsgInvalidPriority]
  ELSE [valid |-> TRUE, messageObj |-> NoMessage]

validatePriority(priority) ==
  IF priority.nan \/ priority.n < 1
  THEN [valid |-> FALSE, messageObj |-> MsgInvalidPriority]
  ELSE [valid |-> TRUE, messageObj |-> NoMessage]

NoUpdates ==
  [setStatus |-> FALSE, status |-> "", setPriority |-> FALSE, priority |-> NaN]

\* Mutant of StatusIncluded: the status is compared whatever its case.
StatusIncludedAnyCase(status) ==
  status.t = "string" /\ status.v \in Statuses \cup {"Backlog"}

StatusIncluded(status) == status.t = "string" /\ status.v \in Statuses

\* Mutant of PrioritySupplied: `priority !== null` for `priority !== undefined`.
PrioritySuppliedNotNull(priority) == priority.t # "null"

PrioritySupplied(priority) == priority.t # "undefined"

\* The body of the db.all callback of PUT from `const client` to the
\* building of the query: a response to send, or the updates to write.
PutDecide(id, body, clients) ==
  LET status   == body.status
      priority == parseInt(JsToString(body.priority), 0)
      pv       == validatePriority(priority)
      nUpdates == (IF Truthy(status) THEN 1 ELSE 0)
                    + (IF PrioritySupplied(body.priority) THEN 1 ELSE 0)
  IN  IF id.n \notin DOMAIN clients
      THEN [send |-> TRUE, code |-> 404, msg |-> MsgClientNotFound, upd |-> NoUpdates]
      ELSE IF Truthy(status) /\ ~StatusIncluded(status)
      THEN [send |-> TRUE, code |-> 400, msg |-> MsgInvalidStatusPut, upd |-> NoUpdates]
      ELSE IF PrioritySupplied(body.priority) /\ ~pv.valid
      THEN [send |-> TRUE, code |-> 400, msg |-> pv.messageObj, upd |-> NoUpdates]
      ELSE IF nUpdates = 0
      THEN [send |-> TRUE, code |-> 400, msg |-> MsgNoFields, upd |-> NoUpdates]
      ELSE [send |-> FALSE, code |-> 0, msg |-> NoMessage,
            upd |-> [setStatus |-> Truthy(status),
                     status |-> IF Truthy(status) THEN status.v ELSE "",
                     setPriority |-> PrioritySupplied(body.priority),
                     priority |-> IF PrioritySupplied(body.priority)
                                  THEN priority ELSE NaN]]

----------------------------------------------------------------------------------------------------------------------------------------------
(* Requests *)

NoResp == [code |-> 0, msg |-> NoMessage, rows |-> NoRows]

NoLast == [set |-> FALSE, raw |-> <<>>, body |-> EmptyBody, rows |-> NoRows,
           after |-> NoRows]

IdleReq ==
  [pc |-> "idle", kind |-> "none", raw |-> <<>>, id |-> NaN, query |-> NoStatus,
   body |-> EmptyBody, upd |-> NoUpdates, ops |-> 0, writes |-> 0, changes |-> 0,
   err |-> FALSE, stale |-> FALSE, alone |-> FALSE, prev |-> NoLast,
   sent |-> 0, resp |-> NoResp]

InFlight(r) == r.pc \notin {"idle", "done"}

Busy == {s \in Slots : InFlight(req[s])}

\* Mutant of Sent: a branch answers without `return` and the request is
\* answered again.
SentTwice(r, code, msg, rows) ==
  [r EXCEPT !.pc = "done", !.sent = @ + 2,
            !.resp = [code |-> code, msg |-> msg, rows |-> rows]]

\* res.status(code).send(...): the request is answered.
Sent(r, code, msg, rows) ==
  [r EXCEPT !.pc = "done", !.sent = @ + 1,
            !.resp = [code |-> code, msg |-> msg, rows |-> rows]]

\* What an answered update leaves for the next request to be compared with:
\* its input, its response and the store it left.
Summary(r, st) ==
  IF r.kind = "PUT" /\ r.alone /\ r.resp.code = 200
  THEN [set |-> TRUE, raw |-> r.raw, body |-> r.body, rows |-> r.resp.rows,
        after |-> st]
  ELSE NoLast

\* The record of an answered request is kept until the next step of the
\* server.
Tidy(r) == IF r.pc = "done" THEN IdleReq ELSE r

\* The connection is open once the server runs.  No statement of server.js
\* ends the process: the listeners of SIGTERM and SIGINT replace the default
\* exit of Node, and the listening HTTP server keeps the event loop alive.
Init ==
  /\ store = InitStore
  /\ req = [s \in Slots |-> IdleReq]
  /\ last = NoLast
  /\ db = "open"
  /\ exited = FALSE

\* The outcomes of a store operation: it fails on a closed connection, and
\* it may fail at any time.
StoreErrs == IF db = "closed" THEN {TRUE} ELSE BOOLEAN

\* Request r has had one more store operation executed, failing or not.
Op(r, err) == [r EXCEPT !.ops = @ + 1, !.err = @ \/ err]

\* Slot s takes a step to r; the store becomes st.
Step(s, r, st) ==
  /\ req' = [t \in Slots |-> IF t = s THEN r ELSE Tidy(req[t])]
  /\ last' = IF r.pc = "done" THEN Summary(r, st) ELSE last
  /\ store' = st
  /\ UNCHANGED <<db, exited>>

\* A request is received in slot s and the synchronous part of its handler
\* takes it to r.  A request that arrives while another one is in flight
\* makes both of them concurrent.
Admit(s, r) ==
  /\ ~InFlight(req[s])
  /\ req' = [t \in Slots |->
               IF t = s THEN r
               ELSE IF InFlight(req[t])
               THEN [req[t] EXCEPT !.alone = FALSE, !.prev = NoLast]
               ELSE IdleReq]
  /\ last' = NoLast
  /\ UNCHANGED <<store, db, exited>>

\* A request with an :id reaches its handler in slot s: parseInt of the path
\* parameter and the synchronous part of validateId.
Arrive(s, kind, raw) ==
  LET id    == parseInt(raw, 10)
      v     == validateIdSync(id)
      alone == Busy = {}
      r0    == [IdleReq EXCEPT !.kind = kind, !.raw = raw, !.id = id,
                               !.alone = alone,
                               !.prev = IF alone THEN last ELSE NoLast]
  IN  Admit(s, IF v.valid THEN [r0 EXCEPT !.pc = "validateId"]
               ELSE Sent(r0, 400, v.messageObj, NoRows))

\* app.get('/api/v1/clients/:id')
GetStart(s) == \E raw \in RawIds : Arrive(s, "GET", raw)

\* app.put('/api/v1/clients/:id')
PutStart(s) == \E raw \in RawIds : Arrive(s, "PUT", raw)

\* db.get of validateId and its callback, for either endpoint.
ValidateIdCb(s) ==
  /\ req[s].pc = "validateId"
  /\ \E err \in StoreErrs :
       LET r == Op(req[s], err)
           v == validateIdRow(err, SelectById(store, r.id))
       IN  Step(s, IF ~v.valid THEN Sent(r, 400, v.messageObj, NoRows)
                   ELSE [r EXCEPT !.pc = IF r.kind = "GET" THEN "getRow" ELSE "scan"],
                store)

\* GET: the second db.get and its callback.
GetRowCb(s) ==
  /\ req[s].pc = "getRow"
  /\ \E err \in StoreErrs :
       LET r == Op(req[s], err)
       IN  Step(s, IF err THEN Sent(r, 500, MsgDbError, NoRows)
                   ELSE Sent(r, 200, NoMessage, SelectById(store, r.id)),
                store)

\* PUT: db.all('SELECT * FROM clients') and its callback, up to db.run.
\* The body of the request is drawn here, where the handler inspects it.
PutScanCb(s) ==
  /\ req[s].pc = "scan"
  /\ \/ Step(s, Sent(Op(req[s], TRUE), 500, MsgDbError, NoRows), store)
     \/ \E body \in Bodies :
          LET r == [Op(req[s], FALSE) EXCEPT !.body = body]
              d == PutDecide(r.id, body, SelectAll(store))
          IN  /\ FALSE \in StoreErrs
              /\ Step(s, IF d.send THEN Sent(r, d.code, d.msg, NoRows)
                          ELSE [r EXCEPT !.pc = "run", !.upd = d.upd],
                       store)

\* The write of request r supersedes what request q, to the same id, has
\* checked and not yet written.
Superseded(q, r) ==
  IF q.kind = "PUT" /\ q.id = r.id /\ q.pc \in {"scan", "run"}
  THEN [q EXCEPT !.stale = TRUE] ELSE q

\* this.changes of the UPDATE: the number of rows it matched.
Changes(st, id) == IF id.n \in DOMAIN st THEN 1 ELSE 0

\* PUT: db.run(UPDATE ...) and its callback.
PutRunCb(s) ==
  /\ req[s].pc = "run"
  /\ \/ Step(s, Sent(Op(req[s], TRUE), 500, MsgDbUpdateError, NoRows), store)
     \/ /\ FALSE \in StoreErrs
        /\ store' = UpdateClient(store, req[s].upd, req[s].id)
        /\ req' = [t \in Slots |->
                     IF t = s
                     THEN [Op(req[s], FALSE) EXCEPT
                             !.pc = "refetch", !.writes = @ + 1,
                             !.changes = Changes(store, req[s].id)]
                     ELSE Superseded(Tidy(req[t]), req[s])]
        /\ UNCHANGED <<last, db, exited>>

\* PUT: the db.all after the write and its callback.
PutFetchCb(s) ==
  /\ req[s].pc = "refetch"
  /\ \E err \in StoreErrs :
       LET r == Op(req[s], err)
       IN  Step(s, IF err THEN Sent(r, 500, MsgDbFetchError, NoRows)
                   ELSE Sent(r, 200, NoMessage, SelectAll(store)),
                store)

\* app.get('/')
RootGet(s) == Admit(s, Sent([IdleReq EXCEPT !.kind = "ROOT"], 200, MsgRoot, NoRows))

\* The test of the status query of GET /api/v1/clients.
ListRejects(status) == Truthy(status) /\ ~StatusIncluded(status)

\* app.get('/api/v1/clients'), up to db.all
ListStart(s) ==
  \E status \in StatusInputs :
    LET r == [IdleReq EXCEPT !.kind = "LIST", !.query = status]
    IN  Admit(s, IF ListRejects(status)
                 THEN Sent(r, 400, MsgInvalidStatusList, NoRows)
                 ELSE [r EXCEPT !.pc = "list"])

\* GET /api/v1/clients: db.all and its callback.
ListCb(s) ==
  /\ req[s].pc = "list"
  /\ \E err \in StoreErrs :
       LET r == Op(req[s], err)
       IN  Step(s, IF err THEN Sent(r, 500, MsgDbError, NoRows)
                   ELSE Sent(r, 200, NoMessage,
                             IF Truthy(r.query) THEN SelectByStatus(store, r.query.v)
                             ELSE SelectAll(store)),
                store)

\* A request arrives at one of the routes.
Receive(s) ==
  \/ RootGet(s)
  \/ ListStart(s)
  \/ GetStart(s)
  \/ PutStart(s)

\* A store operation of the request of slot s executes and calls back.
Callback(s) ==
  \/ ListCb(s)
  \/ ValidateIdCb(s)
  \/ GetRowCb(s)
  \/ PutScanCb(s)
  \/ PutRunCb(s)
  \/ PutFetchCb(s)

Next == \E s \in Slots : Receive(s) \/ Callback(s)

Spec == Init /\ [][Next]_vars

----------------------------------------------------------------------------
(* The environment of the server: the table changed from outside, and the  *)
(* termination signals.  Each is studied with one request at a time.       *)

OneSlot == {"r1"}

\* An event outside the requests: the answered ones are dropped, and the one
\* in flight no longer follows the previous one directly.
Outside ==
  /\ req' = [t \in Slots |->
               IF InFlight(req[t])
               THEN [req[t] EXCEPT !.alone = FALSE, !.prev = NoLast]
               ELSE IdleReq]
  /\ last' = NoLast

\* Record i is deleted from clients.db by another user of the file; the
\* handler of PUT expects it (`if (!client)`).
DeleteClient(i) ==
  /\ i \in DOMAIN store
  /\ store' = [j \in DOMAIN store \ {i} |-> store[j]]
  /\ Outside
  /\ UNCHANGED <<db, exited>>

NextChurn ==
  \/ \E s \in OneSlot : Receive(s) \/ Callback(s)
  \/ \E i \in ClientIds : DeleteClient(i)

SpecChurn == Init /\ [][NextChurn]_vars

\* SIGTERM or SIGINT: closeDb calls db.close.  (On a connection already
\* closing or closed db.close only reports an error to the callback.)
Signal ==
  /\ db = "open"
  /\ db' = "closing"
  /\ Outside
  /\ UNCHANGED <<store, exited>>

\* db.close completes and its callback logs the outcome.
CloseCb ==
  /\ db = "closing"
  /\ db' = "closed"
  /\ Outside
  /\ UNCHANGED <<store, exited>>

NextSignals ==
  \/ \E s \in OneSlot : Receive(s) \/ Callback(s)
  \/ Signal
  \/ CloseCb

\* Every callback that is due is eventually run; nothing obliges a request
\* or a signal to arrive.
SpecSignals ==
  /\ Init /\ [][NextSignals]_vars
  /\ WF_vars(CloseCb)
  /\ \A s \in OneSlot : WF_vars(Callback(s))

----------------------------------------------------------------------------
(* Vocabulary of the properties *)

Done(s) == req[s].pc = "done"

PutDone(s) == Done(s) /\ req[s].kind = "PUT"

\* The request of slot s met no store failure.
StoreOk(s) == ~req[s].err

\* A decimal integer: an optional sign and one or more decimal digits.
IsIntegerLiteral(chars) ==
  LET ds == IF chars # <<>> /\ Head(chars) \in {"+", "-"} THEN Tail(chars) ELSE chars
  IN  ds # <<>> /\ \A i \in 1..Len(ds) : IsDigit(ds[i], 10)

IntegerValue(chars) ==
  IF Head(chars) = "-" THEN 0 - MathInt(Tail(chars), 10, 0)
  ELSE IF Head(chars) = "+" THEN MathInt(Tail(chars), 10, 0)
  ELSE MathInt(chars, 10, 0)

\* The request of slot s names a stored record.
OnExistingId(s) == ~req[s].id.nan /\ req[s].id.n \in DOMAIN store

StatusGiven(body) == body.status.t # "undefined"

PriorityGiven(body) == body.priority.t # "undefined"

IsPositiveInteger(p) == IsIntegerLiteral(p.v) /\ IntegerValue(p.v) >= 1

Rejected(s, msg) ==
  /\ req[s].resp.code = 400
  /\ req[s].resp.msg = msg
  /\ req[s].writes = 0

----------------------------------------------------------------------------
(* C1: every stored record always has a status of the fixed set and an     *)
(* integer priority of at least 1, whatever requests are handled and       *)
(* however they interleave.                                                *)
C1_StoreInvariant ==
  \A i \in DOMAIN store :
    /\ store[i].status \in Statuses
    /\ store[i].priority \in Nat
    /\ store[i].priority >= 1

\* An update has written both fields of record 1.
C1_Witness ==
  \E s \in Slots :
    /\ req[s].writes = 1
    /\ req[s].upd.setStatus /\ req[s].upd.setPriority
    /\ store[1].status = "in-progress" /\ store[1].priority = 2

(* C2: a PUT on an existing id whose body supplies a status that is not    *)
(* one of backlog, in-progress, complete is answered 400 invalid status    *)
(* and writes nothing, also when the body carries a valid priority.        *)
C2_InvalidStatusRejected ==
  \A s \in Slots :
    (/\ PutDone(s) /\ StoreOk(s) /\ OnExistingId(s)
     /\ StatusGiven(req[s].body)
     /\ req[s].body.status.v \notin Statuses)
    => Rejected(s, MsgInvalidStatusPut)

(* C3: a PUT on an existing id whose body supplies a priority that is not  *)
(* an integer or is less than 1 is answered 400 invalid priority and       *)
(* writes nothing, also when the body carries a valid status (the status   *)
(* is here absent or valid, so that no other rejection comes first).       *)
C3_InvalidPriorityRejected ==
  \A s \in Slots :
    (/\ PutDone(s) /\ StoreOk(s) /\ OnExistingId(s)
     /\ PriorityGiven(req[s].body)
     /\ ~IsPositiveInteger(req[s].body.priority)
     /\ (StatusGiven(req[s].body) => req[s].body.status.v \in Statuses))
    => Rejected(s, MsgInvalidPriority)

(* C4: a PUT on an existing id whose body supplies neither status nor      *)
(* priority is answered 400 "No valid fields to update." and issues no     *)
(* write.                                                                  *)
C4_NoFieldsRejected ==
  \A s \in Slots :
    (/\ PutDone(s) /\ StoreOk(s) /\ OnExistingId(s)
     /\ req[s].body = EmptyBody)
    => Rejected(s, MsgNoFields)

\* A PUT on record 1 with an empty body has been answered.
C4_Witness ==
  \E s \in Slots :
    /\ PutDone(s) /\ req[s].raw = <<"1">> /\ req[s].body = EmptyBody
    /\ req[s].resp.msg = MsgNoFields

(* C5: a GET or PUT whose identifier is not an integer is answered 400     *)
(* "Id can only be integer." and issues no write.                          *)
C5_NonIntegerIdRejected ==
  \A s \in Slots :
    (/\ Done(s) /\ req[s].kind \in {"GET", "PUT"} /\ StoreOk(s)
     /\ ~IsIntegerLiteral(req[s].raw))
    => Rejected(s, MsgIdNotInteger)

(* C6: a GET or PUT whose identifier is an integer that names no stored    *)
(* record is answered with a not-found error, status 400 or 404, and       *)
(* issues no write.                                                        *)
C6_UnknownIdNotFound ==
  \A s \in Slots :
    (/\ Done(s) /\ StoreOk(s)
     /\ IsIntegerLiteral(req[s].raw)
     /\ IntegerValue(req[s].raw) \notin DOMAIN store)
    => /\ req[s].resp.code \in {400, 404}
       /\ req[s].resp.msg \in {MsgIdNotFound, MsgClientNotFound}
       /\ req[s].writes = 0

\* A GET of id 9, which names no record, has been answered "not found".
C6_Witness ==
  \E s \in Slots :
    /\ Done(s) /\ req[s].raw = <<"9">> /\ req[s].kind = "GET"
    /\ req[s].resp.msg = MsgIdNotFound

(* C7: the write of a PUT on record r leaves r's priority as it was when   *)
(* the body supplies no priority, r's status as it was when the body       *)
(* supplies no status, and never changes r's id or its other fields.       *)
C7_WriteFrame ==
  [][\A s \in Slots :
       (req[s].pc = "run" /\ req'[s].pc = "refetch") =>
         LET i == req[s].id.n
             b == req[s].body
         IN  /\ ~PriorityGiven(b) => store'[i].priority = store[i].priority
             /\ ~StatusGiven(b) => store'[i].status = store[i].status
             /\ store'[i].id = store[i].id
             /\ store'[i].name = store[i].name]_vars

\* A status-only update has been written to record 1: the status is new,
\* the priority is the initial one.
C7_Witness ==
  \E s \in Slots :
    /\ req[s].pc = "refetch" /\ req[s].id.n = 1
    /\ StatusGiven(req[s].body) /\ ~PriorityGiven(req[s].body)
    /\ store[1].status = "in-progress" /\ store[1].priority = InitStore[1].priority

(* C8: no write of another request to the same identifier takes effect     *)
(* between a PUT's existence check and that PUT's own write.               *)
C8_CheckAndWriteAtomic ==
  \A s \in Slots : req[s].writes = 1 => ~req[s].stale

(* C9: a PUT answered 200 returns one entry per stored record, and in it   *)
(* the record of the requested id carries every field value the request    *)
(* supplied, also when other requests are in flight.                       *)
C9_ResponseCarriesSupplied ==
  \A s \in Slots :
    (PutDone(s) /\ req[s].resp.code = 200) =>
      LET rows == req[s].resp.rows
          b    == req[s].body
          i    == req[s].id.n
      IN  /\ DOMAIN rows = DOMAIN store
          /\ StatusGiven(b) => rows[i].status = b.status.v
          /\ PriorityGiven(b) => Literal(rows[i].priority) = b.priority.v

(* C10: a PUT that repeats the previous PUT (same identifier, same body),  *)
(* no other request having been handled in between or at the same time,    *)
(* is answered 200 with the same body as the first and leaves the store as *)
(* the first left it.                                                      *)
C10_Idempotent ==
  \A s \in Slots :
    (/\ PutDone(s) /\ StoreOk(s) /\ req[s].alone
     /\ req[s].prev.set
     /\ req[s].prev.raw = req[s].raw
     /\ req[s].prev.body = req[s].body)
    => /\ req[s].resp.code = 200
       /\ req[s].resp.rows = req[s].prev.rows
       /\ store = req[s].prev.after

\* A PUT that changed record 1 has been repeated and answered.
C10_Witness ==
  \E s \in Slots :
    /\ PutDone(s) /\ req[s].alone /\ req[s].prev.set
    /\ req[s].prev.raw = req[s].raw /\ req[s].prev.body = req[s].body
    /\ req[s].resp.code = 200
    /\ store[1] # InitStore[1]

(* C11: a store failure at any store operation of a request, the lookup  *)
(* of the identifier included, is answered with status 500 and one of the  *)
(* store error messages, never with the status of a validation error.      *)
C11_StoreErrorIs500 ==
  \A s \in Slots :
    (Done(s) /\ req[s].err) =>
      /\ req[s].resp.code = 500
      /\ req[s].resp.msg \in {MsgDbError, MsgDbUpdateError, MsgDbFetchError}

(* C12: every response with an error status, from any endpoint, has a body *)
(* with both a message and a long_message field.                           *)
C12_ErrorBodyShape ==
  \A s \in Slots :
    (Done(s) /\ req[s].resp.code >= 400) =>
      {"message", "long_message"} \subseteq DOMAIN req[s].resp.msg

(* C13: GET /clients with a status value outside the fixed set is answered *)
(* 400 invalid status without any store operation; with a status of the    *)
(* set it returns exactly the stored records of that status; with no       *)
(* status it returns every stored record.                                  *)
C13_ListByStatus ==
  \A s \in Slots :
    (Done(s) /\ req[s].kind = "LIST" /\ StoreOk(s)) =>
      LET q == req[s].query
      IN  IF q.t = "undefined"
          THEN req[s].resp.code = 200 /\ req[s].resp.rows = store
          ELSE IF q.v \in Statuses
          THEN /\ req[s].resp.code = 200
               /\ DOMAIN req[s].resp.rows = {i \in DOMAIN store : store[i].status = q.v}
               /\ \A i \in DOMAIN req[s].resp.rows : req[s].resp.rows[i] = store[i]
          ELSE /\ req[s].resp.code = 400
               /\ req[s].resp.msg = MsgInvalidStatusList
               /\ req[s].ops = 0

(* C14: on SIGTERM or SIGINT the connection is closed and the process     *)
(* then exits: it never exits with the connection open, and once a signal  *)
(* has been received it eventually exits.                                  *)
C14_ClosedThenExit ==
  /\ [](exited => db = "closed")
  /\ (db # "open") ~> exited

C16_WriteHitsExistingRecord ==
  \A s \in Slots :
    (PutDone(s) /\ req[s].resp.code = 200) => req[s].changes = 1

(* C17: the requests never add or remove a record, and a record changes    *)
(* only in the write of a PUT on its own identifier; a PUT that sets a     *)
(* priority already used by another record succeeds and leaves that        *)
(* record as it was.                                                       *)
C17_OtherRecordsUntouched ==
  [][/\ DOMAIN store' = DOMAIN store
     /\ \A i \in DOMAIN store :
          store'[i] # store[i] =>
            \E s \in Slots :
              /\ req[s].kind = "PUT" /\ req[s].id = Num(i)
              /\ req[s].pc = "run" /\ req'[s].pc = "refetch"]_vars

\* A PUT has set the priority of record 1 to that of record 2 and has been
\* answered 200; record 2 is as it was.
C17_Witness ==
  \E s \in Slots :
    /\ PutDone(s) /\ req[s].resp.code = 200 /\ req[s].id = Num(1)
    /\ req[s].upd.setPriority
    /\ store[1].priority = store[2].priority
    /\ store[1].priority # InitStore[1].priority
    /\ store[2] = InitStore[2]

(* C18: a PUT answered with anything but 200, the 500 store errors         *)
(* included, has written nothing.                                          *)
C18_ErrorMeansNoWrite ==
  \A s \in Slots :
    (PutDone(s) /\ req[s].resp.code # 200) => req[s].writes = 0

(* C19: every request gets exactly one response: no request is answered  *)
(* twice, an answered request has been answered once, and every request    *)
(* in flight is eventually answered, each store operation calling back.    *)
C19_ExactlyOneResponse ==
  /\ [](\A s \in Slots :
         /\ req[s].sent <= 1
         /\ Done(s) <=> req[s].sent = 1)
  /\ \A s \in Slots : InFlight(req[s]) ~> Done(s)

\* A PUT has been answered 200 after its four store operations.
C19_Witness ==
  \E s \in Slots :
    /\ PutDone(s) /\ req[s].sent = 1 /\ req[s].ops = 4
    /\ req[s].resp.code = 200

StatusOnly(r) ==
  /\ r.kind = "PUT"
  /\ StatusGiven(r.body) /\ r.body.status.v \in Statuses
  /\ ~PriorityGiven(r.body)

PriorityOnly(r) ==
  /\ r.kind = "PUT"
  /\ ~StatusGiven(r.body)
  /\ PriorityGiven(r.body) /\ IsPositiveInteger(r.body.priority)

(* C20: of two concurrent valid PUTs to the same id, one supplying only a  *)
(* status and the other only a priority, the later write, in either order, *)
(* leaves the record with the status of the one and the priority of the    *)
(* other.                                                                  *)
C20_NoLostUpdate ==
  [][\A r \in Slots :
       (req[r].pc = "run" /\ req'[r].pc = "refetch") =>
         LET i == req[r].id.n
         IN  /\ (req[r].stale /\ PriorityOnly(req[r])) =>
                  /\ store'[i].status = store[i].status
                  /\ store'[i].priority = IntegerValue(req[r].body.priority.v)
             /\ (req[r].stale /\ StatusOnly(req[r])) =>
                  /\ store'[i].priority = store[i].priority
                  /\ store'[i].status = req[r].body.status.v
             /\ \A q \in Slots \ {r} :
                  (/\ req[q].pc = "refetch" /\ req[q].id = req[r].id
                   /\ store[i].status = req[q].upd.status
                   /\ StatusOnly(req[q]) /\ PriorityOnly(req[r])) =>
                    /\ store'[i].status = req[q].body.status.v
                    /\ store'[i].priority = IntegerValue(req[r].body.priority.v)
             /\ \A q \in Slots \ {r} :
                  (/\ req[q].pc = "refetch" /\ req[q].id = req[r].id
                   /\ store[i].priority = req[q].upd.priority.n
                   /\ PriorityOnly(req[q]) /\ StatusOnly(req[r])) =>
                    /\ store'[i].priority = IntegerValue(req[q].body.priority.v)
                    /\ store'[i].status = req[r].body.status.v]_vars

\* Two concurrent PUTs on record 1 have both written, the priority-only one
\* after the status-only one: the record has the status of the one and the
\* priority of the other.
C20_Witness ==
  \E q, r \in Slots :
    /\ q # r
    /\ req[q].pc = "refetch" /\ req[r].pc = "refetch"
    /\ req[q].id = Num(1) /\ req[r].id = Num(1)
    /\ StatusOnly(req[q]) /\ PriorityOnly(req[r]) /\ req[r].stale
    /\ store[1].status = "in-progress" /\ req[q].body.status.v = "in-progress"
    /\ store[1].priority = 2 /\ req[r].body.priority = JsNumber(<<"2">>)

====
